---- MODULE Spec2Model ----
(***************************************************************************)
(* The encrypted wallet store of sovereign-keychain: StorageService over   *)
(* the three Dexie tables (dids, credentials, activities) and the          *)
(* passphrase cipher of CryptoService.                                     *)
(* On top of it: the signatures of CryptoService, the credentials and      *)
(* presentations of CredentialService, and the offers and requests of      *)
(* OpenIDService with the Exchange page that accepts an offer; the         *)
(* issuing of the Issue page with the logging of N8NService; the store's   *)
(* calls taken apart at their awaits; and the handlers of the pages that   *)
(* unlock the wallet, resolve the active identity and import an identity.  *)
(***************************************************************************)
EXTENDS Integers, Sequences, FiniteSets, TLC

\* ---------------------------------------------------------------- bounds
MaxDids == 2
MaxCreds == 1
MaxLog == 2
MaxResign == 1
MaxVcs == 2
MaxTypes == 2
MaxDescriptors == 2
MaxRows == 2
MaxPending == 2

\* ---------------------------------------------------------------- values
\* masterPassword: string | null
NULL == "null"
Secrets == {"pw1", "pw2"}
\* what a caller may hand to setMasterPassword (the empty string is falsy)
Passwords == Secrets \cup {""}

DIDs == {"did:ethr:0xA", "did:ethr:0xB"}
VcIds == {"urn:uuid:1"}
Statuses == {"active", "revoked"}

\* JSON values: every value carries its type tag t
Undefined == [t |-> "undef"]
Null == [t |-> "null"]
Str(s) == [t |-> "str", s |-> s]
Num(n) == [t |-> "num", n |-> n]
Bool(b) == [t |-> "bool", b |-> b]

\* the identities offered to storeDID: importDID passes the pair of the
\* imported file on without relating the key to the DID, so one DID comes
\* with either key
Identities ==
  { <<"did:ethr:0xA", Str("0xkeyA")>>, <<"did:ethr:0xA", Str("0xkeyB")>>,
    <<"did:ethr:0xB", Str("0xkeyB")>> }

\* an unsigned credential as createCredential builds it
Credential(vcId, degree) ==
  [t |-> "obj", id |-> vcId, issuer |-> "did:ethr:0xA", degree |-> degree]
Credentials == {Credential(v, "BSc") : v \in VcIds}

\* ---------------------------------------------------------------- cipher
\* The salt CryptoJS draws for every encryption.  Under a passphrase other
\* than the encrypting one the CBC plaintext is pseudo-random; whether it
\* survives unpadding, UTF-8 decoding and JSON.parse depends on the salt and
\* the passphrase.  "s1" stands for the salts under which it does.
Salts == {"s0", "s1"}

\* JSON.stringify: undefined has no JSON text
JSONStringify(v) ==
  IF v.t = "undef" THEN [kind |-> "none"] ELSE [kind |-> "json", of |-> v]

\* CryptoJS.AES.encrypt(text, passphrase): an undefined message is encrypted
\* as the empty message
AESEncrypt(text, passphrase, salt) ==
  [salt |-> salt, key |-> passphrase,
   msg |-> IF text.kind = "none" THEN [kind |-> "empty"] ELSE text]

Encrypt(data, passphrase, salt) ==
  AESEncrypt(JSONStringify(data), passphrase, salt)

\* CryptoJS.AES.decrypt + toString(Utf8): no authentication tag is checked
AESDecrypt(encryptedData, passphrase) ==
  IF encryptedData.key = passphrase
    THEN encryptedData.msg
    ELSE [kind |-> "garbled", digit |-> (encryptedData.salt = "s1")]

Ok(v) == [kind |-> "ok", value |-> v]
Thrown(e) == [kind |-> "error", value |-> e]
NotFound == [kind |-> "null", value |-> Null]

NotUnlocked == "Master password not set. Please unlock wallet first."
DecryptionFailed == "Failed to decrypt data. Invalid passphrase."
TypeError == "TypeError"

\* JSON.parse of the decrypted text; every exception becomes DecryptionFailed
Decrypt(encryptedData, passphrase) ==
  LET text == AESDecrypt(encryptedData, passphrase)
  IN  CASE text.kind = "json" -> Ok(text.of)
        [] text.kind = "empty" -> Thrown(DecryptionFailed)
        [] text.kind = "garbled" ->
             IF text.digit THEN Ok(Num(7)) ELSE Thrown(DecryptionFailed)

\* ---------------------------------------------------------------- state
VARIABLES
  masterPassword,   \* StorageService.masterPassword
  dids,             \* db.dids, in primary-key order
  credentials,      \* db.credentials, in primary-key order
  activities,       \* db.activities, in primary-key order
  last,             \* the last call: [op, arg, kind, value]
  pending,          \* the requests to db that are in flight, oldest first
  isUnlocked        \* the isUnlocked flag of the Index page

vars == <<masterPassword, dids, credentials, activities, last, pending,
         isUnlocked>>
tables == <<dids, credentials, activities>>

Call(op, arg, res) == [op |-> op, arg |-> arg, kind |-> res.kind, value |-> res.value]

\* a null check in place of the falsy check
LockedOnlyWhenNull == masterPassword = NULL

\* getMasterPassword throws when masterPassword is null or empty
Locked == masterPassword = NULL \/ masterPassword = ""

Activity(type, ref) == [type |-> type, ref |-> ref]

\* a put under a fixed key in place of the add: the newest entry replaces
\* the log
LogActivityOverwriting(log, type, ref) == <<Activity(type, ref)>>

\* logActivity: db.activities.add of a new entry
LogActivity(log, type, ref) == Append(log, Activity(type, ref))

\* first row of a table with the given value in the given field, 0 if none
RECURSIVE FirstFrom(_, _, _, _)
FirstFrom(table, field, v, i) ==
  IF i > Len(table) THEN 0
  ELSE IF table[i][field] = v THEN i
  ELSE FirstFrom(table, field, v, i + 1)
First(table, field, v) == FirstFrom(table, field, v, 1)

\* where(field).equals(v).delete()
Without(table, field, v) == SelectSeq(table, LAMBDA r : r[field] # v)

Init ==
  /\ masterPassword = NULL
  /\ dids = << >>
  /\ credentials = << >>
  /\ activities = << >>
  /\ last = Call("init", Null, Ok(Null))
  /\ pending = << >>
  /\ isUnlocked = FALSE

\* ---------------------------------------------------------------- session
setMasterPassword ==
  \E password \in Passwords :
    /\ masterPassword' = password
    /\ UNCHANGED <<pending, isUnlocked>> /\ last' = Call("setMasterPassword", Str(password), Ok(Null))
    /\ UNCHANGED tables

clearMasterPassword ==
  /\ masterPassword' = NULL
  /\ UNCHANGED <<pending, isUnlocked>> /\ last' = Call("clearMasterPassword", Null, Ok(Null))
  /\ UNCHANGED tables

\* ---------------------------------------------------------------- DIDs
StoredDID(did, encryptedPrivateKey) ==
  [t |-> "obj", did |-> did, encryptedPrivateKey |-> encryptedPrivateKey,
   privateKey |-> Undefined]

storeDID ==
  \E identity \in Identities, salt \in Salts :
    LET did == identity[1]
        privateKey == identity[2]
    IN
    IF Locked
      THEN /\ UNCHANGED <<pending, isUnlocked>> /\ last' = Call("storeDID", Str(did), Thrown(NotUnlocked))
           /\ UNCHANGED <<masterPassword, tables>>
      ELSE /\ Len(dids) < MaxDids
           /\ Len(activities) < MaxLog
           /\ dids' = Append(dids,
                StoredDID(did, Encrypt(privateKey, masterPassword, salt)))
           /\ activities' = LogActivity(activities, "did_created", did)
           /\ UNCHANGED <<pending, isUnlocked>> /\ last' = Call("storeDID", Str(did), Ok(Null))
           /\ UNCHANGED <<masterPassword, credentials>>

\* a decrypt failure swallowed and reported as "no such record"
GetDIDResultSwallowing(table, password, did) ==
  LET i == First(table, "did", did)
  IN  IF i = 0 THEN NotFound
      ELSE LET privateKey == Decrypt(table[i].encryptedPrivateKey, password)
           IN  IF privateKey.kind = "error" THEN NotFound
               ELSE Ok([did |-> did, privateKey |-> privateKey.value])

GetDIDResult(table, password, did) ==
  LET i == First(table, "did", did)
  IN  IF i = 0 THEN NotFound
      ELSE LET privateKey == Decrypt(table[i].encryptedPrivateKey, password)
           IN  IF privateKey.kind = "error" THEN privateKey
               ELSE Ok([did |-> did, privateKey |-> privateKey.value])

getDID ==
  \E did \in DIDs :
    /\ UNCHANGED <<pending, isUnlocked>> /\ last' = Call("getDID", Str(did),
                    IF Locked THEN Thrown(NotUnlocked)
                    ELSE GetDIDResult(dids, masterPassword, did))
    /\ UNCHANGED <<masterPassword, tables>>

getAllDIDs ==
  /\ UNCHANGED <<pending, isUnlocked>> /\ last' = Call("getAllDIDs", Null, Ok(dids))
  /\ UNCHANGED <<masterPassword, tables>>

deleteDID ==
  \E did \in DIDs :
    /\ Len(activities) < MaxLog
    /\ dids' = Without(dids, "did", did)
    /\ activities' = LogActivity(activities, "did_deleted", did)
    /\ UNCHANGED <<pending, isUnlocked>> /\ last' = Call("deleteDID", Str(did), Ok(Null))
    /\ UNCHANGED <<masterPassword, credentials>>

\* ---------------------------------------------------------------- credentials
StoredCredential(credential, encryptedData) ==
  [t |-> "obj", vcId |-> credential.id, issuer |-> credential.issuer,
   encryptedData |-> encryptedData, status |-> "active",
   credential |-> Undefined]

storeCredential ==
  \E credential \in Credentials, salt \in Salts :
    IF Locked
      THEN /\ UNCHANGED <<pending, isUnlocked>> /\ last' = Call("storeCredential", Str(credential.id), Thrown(NotUnlocked))
           /\ UNCHANGED <<masterPassword, tables>>
      ELSE /\ Len(credentials) < MaxCreds
           /\ Len(activities) < MaxLog
           /\ credentials' = Append(credentials,
                StoredCredential(credential, Encrypt(credential, masterPassword, salt)))
           /\ activities' = LogActivity(activities, "vc_received", credential.id)
           /\ UNCHANGED <<pending, isUnlocked>> /\ last' = Call("storeCredential", Str(credential.id), Ok(Null))
           /\ UNCHANGED <<masterPassword, dids>>

GetCredentialResult(table, password, vcId) ==
  LET i == First(table, "vcId", vcId)
  IN  IF i = 0 THEN NotFound ELSE Decrypt(table[i].encryptedData, password)

getCredential ==
  \E vcId \in VcIds :
    /\ UNCHANGED <<pending, isUnlocked>> /\ last' = Call("getCredential", Str(vcId),
                    IF Locked THEN Thrown(NotUnlocked)
                    ELSE GetCredentialResult(credentials, masterPassword, vcId))
    /\ UNCHANGED <<masterPassword, tables>>

getAllCredentials ==
  /\ UNCHANGED <<pending, isUnlocked>> /\ last' = Call("getAllCredentials", Null, Ok(credentials))
  /\ UNCHANGED <<masterPassword, tables>>

deleteCredential ==
  \E vcId \in VcIds :
    /\ Len(activities) < MaxLog
    /\ credentials' = Without(credentials, "vcId", vcId)
    /\ activities' = LogActivity(activities, "vc_deleted", vcId)
    /\ UNCHANGED <<pending, isUnlocked>> /\ last' = Call("deleteCredential", Str(vcId), Ok(Null))
    /\ UNCHANGED <<masterPassword, dids>>

updateCredentialStatus ==
  \E vcId \in VcIds, status \in Statuses :
    /\ credentials' = [i \in 1..Len(credentials) |->
         IF credentials[i].vcId = vcId
           THEN [credentials[i] EXCEPT !.status = status]
           ELSE credentials[i]]
    /\ UNCHANGED <<pending, isUnlocked>> /\ last' = Call("updateCredentialStatus", [vcId |-> vcId, status |-> status], Ok(Null))
    /\ UNCHANGED <<masterPassword, dids, activities>>

\* ---------------------------------------------------------------- activity log
\* the direct callers of logActivity (the pages) log issued credentials
logActivity ==
  \E vcId \in VcIds :
    /\ Len(activities) < MaxLog
    /\ activities' = LogActivity(activities, "vc_issued", vcId)
    /\ UNCHANGED <<pending, isUnlocked>> /\ last' = Call("logActivity", Str(vcId), Ok(Null))
    /\ UNCHANGED <<masterPassword, dids, credentials>>

\* ---------------------------------------------------------------- export / import
\* dids.map(did => ({...did, privateKey: decrypt(...)})): one failing decrypt
\* fails the whole export
ExportResult(ds, cs, as, password) ==
  LET keys == [i \in 1..Len(ds) |-> Decrypt(ds[i].encryptedPrivateKey, password)]
      datas == [i \in 1..Len(cs) |-> Decrypt(cs[i].encryptedData, password)]
  IN  IF \/ \E i \in 1..Len(ds) : keys[i].kind = "error"
         \/ \E i \in 1..Len(cs) : datas[i].kind = "error"
        THEN Thrown(DecryptionFailed)
        ELSE Ok([dids |-> [i \in 1..Len(ds) |->
                             [ds[i] EXCEPT !.privateKey = keys[i].value]],
                 credentials |-> [i \in 1..Len(cs) |->
                             [cs[i] EXCEPT !.credential = datas[i].value]],
                 activities |-> as])

exportWallet ==
  /\ UNCHANGED <<pending, isUnlocked>> /\ last' = Call("exportWallet", Null,
                  IF Locked THEN Thrown(NotUnlocked)
                  ELSE ExportResult(dids, credentials, activities, masterPassword))
  /\ UNCHANGED <<masterPassword, tables>>

\* index of the first null element of a snapshot list, 0 if none: reading a
\* property of it raises a TypeError
RECURSIVE FirstNullFrom(_, _)
FirstNullFrom(list, i) ==
  IF i > Len(list) THEN 0
  ELSE IF list[i].t = "null" THEN i
  ELSE FirstNullFrom(list, i + 1)
FirstNull(list) == FirstNullFrom(list, 1)

\* the elements a loop over the list handles before it throws (all, if it
\* does not throw)
Handled(list) ==
  IF FirstNull(list) = 0 THEN Len(list) ELSE FirstNull(list) - 1

\* for (const did of data.dids) add({...did, encryptedPrivateKey})
ImportedDIDs(list, password, salts) ==
  [i \in 1..Handled(list) |->
     [list[i] EXCEPT !.encryptedPrivateKey =
                        Encrypt(list[i].privateKey, password, salts[i])]]

\* for (const cred of data.credentials) add({...cred, encryptedData})
ImportedCredentials(list, password, salts) ==
  [i \in 1..Handled(list) |->
     [list[i] EXCEPT !.encryptedData =
                        Encrypt(list[i].credential, password, salts[i])]]

\* snapshots a caller can write by hand: a well-formed one, one whose second
\* identity is null, and one whose identity lacks its private key
PlainIdentity(did, privateKey) ==
  [t |-> "obj", did |-> did, encryptedPrivateKey |-> Undefined,
   privateKey |-> privateKey]
PlainCredential(credential) ==
  [t |-> "obj", vcId |-> credential.id, issuer |-> credential.issuer,
   encryptedData |-> Undefined, status |-> "active", credential |-> credential]
Snapshot(ds, cs, as) == [dids |-> ds, credentials |-> cs, activities |-> as]
IdentityA == PlainIdentity("did:ethr:0xA", Str("0xkeyA"))
WrittenSnapshots ==
  { Snapshot(<<IdentityA>>,
             <<PlainCredential(Credential("urn:uuid:1", "BSc"))>>, << >>),
    Snapshot(<<IdentityA, Null>>, << >>, << >>),
    Snapshot(<<PlainIdentity("did:ethr:0xB", Undefined)>>, << >>, << >>) }

\* the snapshot the caller holds: one written by hand or the one just exported
HeldSnapshots ==
  WrittenSnapshots \cup
    (IF last.op = "exportWallet" /\ last.kind = "ok" THEN {last.value} ELSE {})

\* the optional second argument of importWallet; "" stands for leaving it out
NewPasswords == {"", "pw2"}

\* the salts of one import are drawn from one class
importWallet ==
  \E data \in HeldSnapshots, newMasterPassword \in NewPasswords :
    LET arg == [data |-> data, newMasterPassword |-> newMasterPassword]
    IN
    IF newMasterPassword = "" /\ Locked
      THEN /\ UNCHANGED <<pending, isUnlocked>> /\ last' = Call("importWallet", arg, Thrown(NotUnlocked))
           /\ UNCHANGED <<masterPassword, tables>>
      ELSE
        \E salt \in Salts :
          LET dsalts == [i \in 1..Len(data.dids) |-> salt]
              csalts == [i \in 1..Len(data.credentials) |-> salt]
              password == IF newMasterPassword # "" THEN newMasterPassword
                          ELSE masterPassword
          IN
          /\ Len(data.dids) <= MaxDids
          /\ Len(data.credentials) <= MaxCreds
          /\ Len(data.activities) <= MaxLog
          /\ dids' = ImportedDIDs(data.dids, password, dsalts)
          /\ credentials' =
               IF FirstNull(data.dids) # 0 THEN << >>
               ELSE ImportedCredentials(data.credentials, password, csalts)
          /\ activities' =
               IF FirstNull(data.dids) # 0 \/ FirstNull(data.credentials) # 0
                 THEN << >>
                 ELSE LogActivity(data.activities, "wallet_imported", "wallet")
          /\ UNCHANGED <<pending, isUnlocked>> /\ last' = Call("importWallet", arg,
               IF FirstNull(data.dids) # 0 \/ FirstNull(data.credentials) # 0
                 THEN Thrown(TypeError) ELSE Ok(Null))
          /\ UNCHANGED masterPassword

clearAllData ==
  /\ dids' = << >>
  /\ credentials' = << >>
  /\ activities' = << >>
  /\ UNCHANGED <<pending, isUnlocked>> /\ last' = Call("clearAllData", Null, Ok(Null))
  /\ UNCHANGED masterPassword

Next ==
  \/ setMasterPassword
  \/ clearMasterPassword
  \/ storeDID
  \/ getDID
  \/ getAllDIDs
  \/ deleteDID
  \/ storeCredential
  \/ getCredential
  \/ getAllCredentials
  \/ deleteCredential
  \/ updateCredentialStatus
  \/ logActivity
  \/ exportWallet
  \/ importWallet
  \/ clearAllData

Spec == Init /\ [][Next]_vars

\* the store round trip runs: sessions, put, get and export only
NextRoundTrip ==
  \/ setMasterPassword
  \/ clearMasterPassword
  \/ storeDID
  \/ getDID
  \/ storeCredential
  \/ getCredential
  \/ exportWallet

SpecRoundTrip == Init /\ [][NextRoundTrip]_vars

\* the runs of the operations that write the activity log, and the session
NextLog ==
  \/ setMasterPassword
  \/ clearMasterPassword
  \/ storeDID
  \/ deleteDID
  \/ storeCredential
  \/ deleteCredential
  \/ logActivity
  \/ importWallet
  \/ clearAllData

SpecLog == Init /\ [][NextLog]_vars

\* ---------------------------------------------------------------- signatures
\* the address ethers derives from a private key (Wallet.address)
AddressOf == [k \in {"0xkeyA", "0xkeyB"} |-> IF k = "0xkeyA" THEN "0xA" ELSE "0xB"]

InvalidPrivateKey == "invalid private key"

\* the address ethers.verifyMessage recovers from a signature over another
\* message: one that belongs to no DID
Unrelated == "0xother"

\* String.prototype.toLowerCase on the addresses
ToLowerCase ==
  [a \in {"0xA", "0xB", "0xa", "0xb", "0x1f", Unrelated} |->
     CASE a = "0xA" -> "0xa"
       [] a = "0xB" -> "0xb"
       [] OTHER -> a]

\* signData: new ethers.Wallet(privateKey) throws unless privateKey is a key;
\* the signature is made over keccak256 of JSON.stringify(data)
SignData(data, privateKey) ==
  IF privateKey.t = "str" /\ privateKey.s \in DOMAIN AddressOf
    THEN Ok([t |-> "sig", signer |-> AddressOf[privateKey.s],
             msg |-> JSONStringify(data)])
    ELSE Thrown(InvalidPrivateKey)

\* ethers.verifyMessage: throws on what is no signature, else recovers the
\* signer of the message
VerifyMessage(msg, signature) ==
  IF signature.t # "sig" THEN Thrown(TypeError)
  ELSE Ok(IF signature.msg = msg THEN signature.signer ELSE Unrelated)

\* verifySignature: every exception becomes false
VerifySignature(data, signature, address) ==
  LET recoveredAddress == VerifyMessage(JSONStringify(data), signature)
  IN  IF recoveredAddress.kind = "error" THEN Ok(FALSE)
      ELSE Ok(ToLowerCase[recoveredAddress.value] = ToLowerCase[address])

\* extractAddressFromDID: the capture of /^did:ethr:(.+)$/, or null
ExtractAddressFromDID(did) ==
  CASE did = "did:ethr:0xA" -> "0xA"
    [] did = "did:ethr:0xB" -> "0xB"
    [] did = "did:ethr:0x1f" -> "0x1f"
    [] OTHER -> NULL

\* ---------------------------------------------------------------- credential engine
\* createCredential for an issuer
CreateCredential(vcId, issuerDID, degree) ==
  [Credential(vcId, degree) EXCEPT !.issuer = issuerDID]

\* { ...entity, proof }
WithProof(entity, proof) ==
  [f \in DOMAIN entity \cup {"proof"} |->
     IF f = "proof" THEN proof ELSE entity[f]]

\* const { proof, ...entityWithoutProof } = entity
WithoutProof(entity) == [f \in DOMAIN entity \ {"proof"} |-> entity[f]]

Proof(proofPurpose, did, signature) ==
  [t |-> "obj", type |-> "EcdsaSecp256k1Signature2019",
   proofPurpose |-> proofPurpose,
   verificationMethod |-> [did |-> did, fragment |-> "controller"],
   signature |-> signature]

IssuerNotFound == "Issuer DID not found"

\* a wrapper that keeps no trace of the error it wraps
FailedToSignOpaque(error) ==
  [message |-> "Failed to sign credential", cause |-> "Error"]

\* catch (error) { throw new Error(`Failed to sign credential: ${error}`) }
FailedToSign(error) == [message |-> "Failed to sign credential", cause |-> error]

\* the body of signCredential after getDID has answered with didData
SignCredentialResult(didData, credential, issuerDID) ==
  IF didData.kind = "error" THEN Thrown(FailedToSign(didData.value))
  ELSE IF didData.kind = "null" THEN Thrown(FailedToSign(IssuerNotFound))
  ELSE LET signature == SignData(credential, didData.value.privateKey)
       IN  IF signature.kind = "error"
             THEN Thrown(FailedToSign(signature.value))
             ELSE Ok(WithProof(credential,
                       Proof("assertionMethod", issuerDID, signature.value)))

\* verifyCredential without its try/catch
VerifyCredentialUncaught(credential) ==
  IF credential.t # "obj" THEN Thrown(TypeError)
  ELSE IF "proof" \notin DOMAIN credential THEN Ok(FALSE)
  ELSE IF "issuer" \notin DOMAIN credential THEN Thrown(TypeError)
  ELSE LET issuerAddress == ExtractAddressFromDID(credential.issuer)
       IN  IF issuerAddress = NULL THEN Ok(FALSE)
           ELSE VerifySignature(WithoutProof(credential),
                                credential.proof.signature, issuerAddress)

\* verifyCredential: every exception becomes false
VerifyCredential(credential) ==
  IF credential.t # "obj" THEN Ok(FALSE)
  ELSE IF "proof" \notin DOMAIN credential THEN Ok(FALSE)
  ELSE IF "issuer" \notin DOMAIN credential THEN Ok(FALSE)
  ELSE LET issuerAddress == ExtractAddressFromDID(credential.issuer)
       IN  IF issuerAddress = NULL THEN Ok(FALSE)
           ELSE VerifySignature(WithoutProof(credential),
                                credential.proof.signature, issuerAddress)

\* how often a signed entity has been signed
RECURSIVE Signings(_)
Signings(entity) ==
  IF "proof" \notin DOMAIN entity THEN 0
  ELSE 1 + Signings(entity.proof.signature.msg.of)

\* the credentials a page hands to signCredential: the ones it has just
\* created, or the signed one it holds
SignInputs ==
  {CreateCredential(vcId, did, "BSc") : vcId \in VcIds, did \in DIDs}
    \cup (IF last.op = "signCredential" /\ last.kind = "ok"
                /\ Signings(last.value) <= MaxResign
            THEN {last.value} ELSE {})

signCredential ==
  \E credential \in SignInputs, issuerDID \in DIDs :
    LET didData == IF Locked THEN Thrown(NotUnlocked)
                   ELSE GetDIDResult(dids, masterPassword, issuerDID)
    IN  /\ UNCHANGED <<pending, isUnlocked>> /\ last' = Call("signCredential",
                        [credential |-> credential, issuerDID |-> issuerDID],
                        SignCredentialResult(didData, credential, issuerDID))
        /\ UNCHANGED <<masterPassword, tables>>

\* copies of a credential with one field other than proof changed
TamperedCopies(credential) ==
  { [credential EXCEPT !.degree = "PhD"],
    [credential EXCEPT !.id = "urn:uuid:2"],
    [credential EXCEPT !.issuer = "did:ethr:0xB"],
    [credential EXCEPT !.issuer = "did:ethr:0xA"] } \ {credential}

SignatureOf(data, privateKey) == SignData(data, Str(privateKey)).value

\* credentials that never passed signCredential unchanged: null, unsigned,
\* a proof without signature, no issuer, an issuer that is no did:ethr DID,
\* the signature of another key, the signature of another message
Unverifiable ==
  LET c == CreateCredential("urn:uuid:1", "did:ethr:0xA", "BSc")
      web == [c EXCEPT !.issuer = "did:web:issuer.example"]
      noIssuer == [f \in DOMAIN c \ {"issuer"} |-> c[f]]
  IN  { Null, c,
        WithProof(c, Proof("assertionMethod", c.issuer, Undefined)),
        WithProof(noIssuer, Proof("assertionMethod", c.issuer, SignatureOf(noIssuer, "0xkeyA"))),
        WithProof(web, Proof("assertionMethod", web.issuer, SignatureOf(web, "0xkeyA"))),
        WithProof(c, Proof("assertionMethod", c.issuer, SignatureOf(c, "0xkeyB"))),
        WithProof(c, Proof("assertionMethod", c.issuer, SignatureOf(web, "0xkeyA"))) }

VerifyInputs ==
  Unverifiable
    \cup (IF last.op = "signCredential" /\ last.kind = "ok"
            THEN {last.value} \cup TamperedCopies(last.value) ELSE {})

\* the boolean a verification resolves to, as a value
Answer(result) ==
  IF result.kind = "ok" THEN Ok(Bool(result.value)) ELSE result

verifyCredential ==
  \E credential \in VerifyInputs :
    /\ UNCHANGED <<pending, isUnlocked>> /\ last' = Call("verifyCredential", credential,
                    Answer(VerifyCredential(credential)))
    /\ UNCHANGED <<masterPassword, tables>>

\* ---------------------------------------------------------------- presentations
\* a createPresentation that names a domain of its own
CreatePresentationOwnDomain(list, holderDID, challenge, domain) ==
  LET presentation ==
        [t |-> "obj", id |-> "urn:uuid:vp", holder |-> holderDID,
         verifiableCredential |-> list,
         challenge |-> challenge, domain |-> Str("https://wallet.example")]
      given == {f \in DOMAIN presentation :
                  ~(f = "challenge" /\ presentation[f] \in {Undefined, Str("")})}
  IN  [f \in given |-> presentation[f]]

\* createPresentation: challenge and domain are set only when given
CreatePresentation(list, holderDID, challenge, domain) ==
  LET presentation ==
        [t |-> "obj", id |-> "urn:uuid:vp", holder |-> holderDID,
         verifiableCredential |-> list,
         challenge |-> challenge, domain |-> domain]
      given == {f \in DOMAIN presentation :
                  ~(f \in {"challenge", "domain"}
                      /\ presentation[f] \in {Undefined, Str("")})}
  IN  [f \in given |-> presentation[f]]

HolderNotFound == "Holder DID not found"
FailedToSignPresentation(error) ==
  [message |-> "Failed to sign presentation", cause |-> error]

\* the body of signPresentation after getDID has answered with didData
SignPresentationResult(didData, presentation, holderDID) ==
  IF didData.kind = "error" THEN Thrown(FailedToSignPresentation(didData.value))
  ELSE IF didData.kind = "null" THEN Thrown(FailedToSignPresentation(HolderNotFound))
  ELSE LET signature == SignData(presentation, didData.value.privateKey)
       IN  IF signature.kind = "error"
             THEN Thrown(FailedToSignPresentation(signature.value))
             ELSE Ok(WithProof(presentation,
                       Proof("authentication", holderDID, signature.value)))

\* a loop that verifies every credential before it answers
RECURSIVE VerifyEachExhaustive(_, _)
VerifyEachExhaustive(list, i) ==
  IF i > Len(list) THEN [valid |-> TRUE, verified |-> << >>]
  ELSE LET rest == VerifyEachExhaustive(list, i + 1)
       IN  [valid |-> VerifyCredential(list[i]).value /\ rest.valid,
            verified |-> <<i>> \o rest.verified]

\* the loop of verifyPresentation from the i-th embedded credential on:
\* the verdict, and the positions verifyCredential was called on
RECURSIVE VerifyEach(_, _)
VerifyEach(list, i) ==
  IF i > Len(list) THEN [valid |-> TRUE, verified |-> << >>]
  ELSE IF ~VerifyCredential(list[i]).value
    THEN [valid |-> FALSE, verified |-> <<i>>]
  ELSE LET rest == VerifyEach(list, i + 1)
       IN  [valid |-> rest.valid, verified |-> <<i>> \o rest.verified]

\* a verification that stops at the holder's proof
VerifyPresentationProofOnly(presentation) ==
  IF presentation.t # "obj" \/ "proof" \notin DOMAIN presentation
       \/ "holder" \notin DOMAIN presentation
    THEN [valid |-> FALSE, verified |-> << >>]
  ELSE LET holderAddress == ExtractAddressFromDID(presentation.holder)
       IN  IF holderAddress = NULL THEN [valid |-> FALSE, verified |-> << >>]
           ELSE [valid |-> VerifySignature(WithoutProof(presentation),
                             presentation.proof.signature, holderAddress).value,
                 verified |-> << >>]

\* verifyPresentation: every exception becomes false
VerifyPresentation(presentation) ==
  IF presentation.t # "obj" \/ "proof" \notin DOMAIN presentation
       \/ "holder" \notin DOMAIN presentation
    THEN [valid |-> FALSE, verified |-> << >>]
  ELSE LET holderAddress == ExtractAddressFromDID(presentation.holder)
       IN  IF holderAddress = NULL THEN [valid |-> FALSE, verified |-> << >>]
           ELSE IF ~VerifySignature(WithoutProof(presentation),
                      presentation.proof.signature, holderAddress).value
             THEN [valid |-> FALSE, verified |-> << >>]
           ELSE IF "verifiableCredential" \notin DOMAIN presentation
             THEN [valid |-> TRUE, verified |-> << >>]
           ELSE VerifyEach(presentation.verifiableCredential, 1)

\* the credentials the holder has at hand for a presentation
HeldCredentials ==
  LET c == CreateCredential("urn:uuid:1", "did:ethr:0xA", "BSc")
  IN  {c} \cup (IF last.op = "signCredential" /\ last.kind = "ok"
                  THEN {last.value, [last.value EXCEPT !.degree = "PhD"]}
                  ELSE {})

Lists(S) == UNION {[1..n -> S] : n \in 0..MaxVcs}

PresentInputs ==
  {CreatePresentation(list, did, Undefined, Undefined) :
     list \in Lists(HeldCredentials), did \in DIDs}
    \cup (IF last.op = "signPresentation" /\ last.kind = "ok"
                /\ Signings(last.value) <= MaxResign
            THEN {last.value} ELSE {})

signPresentation ==
  \E presentation \in PresentInputs, holderDID \in DIDs :
    LET didData == IF Locked THEN Thrown(NotUnlocked)
                   ELSE GetDIDResult(dids, masterPassword, holderDID)
    IN  /\ UNCHANGED <<pending, isUnlocked>> /\ last' = Call("signPresentation",
                        [presentation |-> presentation, holderDID |-> holderDID],
                        SignPresentationResult(didData, presentation, holderDID))
        /\ UNCHANGED <<masterPassword, tables>>

\* presentations that never passed signPresentation unchanged, and the copies
\* of the signed one with the holder or an embedded credential changed
TamperedPresentations(presentation) ==
  { [presentation EXCEPT !.holder = "did:ethr:0xB"],
    [presentation EXCEPT !.holder = "did:ethr:0xA"],
    [presentation EXCEPT !.verifiableCredential =
       [i \in DOMAIN @ |-> IF "degree" \in DOMAIN @[i]
                            THEN [@[i] EXCEPT !.degree = "MSc"] ELSE @[i]]] }
    \ {presentation}

VerifyPresentationInputs ==
  { Null, CreatePresentation(<< >>, "did:ethr:0xA", Undefined, Undefined) }
    \cup (IF last.op = "signPresentation" /\ last.kind = "ok"
            THEN {last.value} \cup TamperedPresentations(last.value) ELSE {})

verifyPresentation ==
  \E presentation \in VerifyPresentationInputs :
    LET verdict == VerifyPresentation(presentation)
    IN  /\ UNCHANGED <<pending, isUnlocked>> /\ last' = Call("verifyPresentation", presentation,
                        Answer(Ok(verdict.valid)))
                     @@ [verified |-> verdict.verified]
        /\ UNCHANGED <<masterPassword, tables>>

NextEngine ==
  \/ setMasterPassword
  \/ clearMasterPassword
  \/ storeDID
  \/ signCredential
  \/ verifyCredential

SpecEngine == Init /\ [][NextEngine]_vars

\* the stores a holder presents from: unlocked or locked again, holding the
\* identities storeDID has stored
HolderStores ==
  LET row(did, privateKey) ==
        StoredDID(did, Encrypt(Str(privateKey), "pw1", "s0"))
  IN  { <<row("did:ethr:0xA", "0xkeyA")>>,
        <<row("did:ethr:0xA", "0xkeyA"), row("did:ethr:0xB", "0xkeyB")>>,
        <<row("did:ethr:0xB", "0xkeyA")>> }

InitPresent ==
  /\ masterPassword \in {"pw1", NULL}
  /\ dids \in HolderStores
  /\ credentials = << >>
  /\ activities = [i \in 1..Len(dids) |-> Activity("did_created", dids[i].did)]
  /\ last = Call(IF masterPassword = NULL THEN "clearMasterPassword" ELSE "storeDID",
                 IF masterPassword = NULL THEN Null ELSE Str(dids[Len(dids)].did),
                 Ok(Null))
  /\ pending = << >>
  /\ isUnlocked = FALSE

NextPresent ==
  \/ signCredential
  \/ signPresentation
  \/ verifyPresentation

SpecPresent == InitPresent /\ [][NextPresent]_vars

\* ---------------------------------------------------------------- issuance
\* the entries of an offer's credentials array: type names, and an entry that
\* is no string (the JSON of an offer is not validated)
OfferedTypes == {Str("UniversityDegree"), Str("DriverLicense"), Num(5)}
Offers == UNION {[1..n -> OfferedTypes] : n \in 1..MaxTypes}

\* the issuer simulateCredentialFromIssuer makes up, and the ids
\* crypto.randomUUID yields for the credentials of one offer
MockIssuerDID == "did:ethr:0x1f"
OfferedIds == [i \in 1..MaxTypes |-> IF i = 1 THEN "urn:uuid:1" ELSE "urn:uuid:2"]

FailedToProcess(error) ==
  [message |-> "Failed to process credential offer", cause |-> error]

\* processCredentialOffer: one unsigned credential per offered type;
\* credentialType.toLowerCase() throws on an entry that is no string, and the
\* catch around the loop rethrows for the whole offer
ProcessCredentialOffer(types) ==
  IF \E i \in 1..Len(types) : types[i].t # "str"
    THEN Thrown(FailedToProcess(TypeError))
    ELSE Ok([i \in 1..Len(types) |->
               CreateCredential(OfferedIds[i], MockIssuerDID, types[i].s)])

\* StorageService.saveCredential where it exists: the rows it adds for the
\* received credentials, as storeCredential adds them
SaveCredential(received, password, salt) ==
  [i \in 1..Len(received) |->
     StoredCredential(received[i], Encrypt(received[i], password, salt))]

\* Exchange.acceptCredentialOffer.  The StorageService of storage.ts defines
\* no saveCredential: the call throws a TypeError, or, where the method
\* exists, persists like storeCredential.
acceptCredentialOffer ==
  \E types \in Offers, userDID \in {"", "did:ethr:0xA"}, salt \in Salts,
     saveCredentialDefined \in BOOLEAN :
    LET arg == [credentials |-> types, userDID |-> userDID]
        receivedCredentials == ProcessCredentialOffer(types)
        n == Len(types)
    IN
    IF userDID = ""
      THEN /\ UNCHANGED <<pending, isUnlocked>> /\ last' = Call("acceptCredentialOffer", arg, Ok(Undefined))
           /\ UNCHANGED <<masterPassword, tables>>
    ELSE IF receivedCredentials.kind = "error"
      THEN /\ UNCHANGED <<pending, isUnlocked>> /\ last' = Call("acceptCredentialOffer", arg, receivedCredentials)
           /\ UNCHANGED <<masterPassword, tables>>
    ELSE IF ~saveCredentialDefined
      THEN /\ UNCHANGED <<pending, isUnlocked>> /\ last' = Call("acceptCredentialOffer", arg, Thrown(TypeError))
           /\ UNCHANGED <<masterPassword, tables>>
    ELSE IF Locked
      THEN /\ UNCHANGED <<pending, isUnlocked>> /\ last' = Call("acceptCredentialOffer", arg, Thrown(NotUnlocked))
           /\ UNCHANGED <<masterPassword, tables>>
    ELSE /\ Len(credentials) + n <= MaxCreds
         /\ Len(activities) + n <= MaxLog
         /\ credentials' = credentials \o
              SaveCredential(receivedCredentials.value, masterPassword, salt)
         /\ activities' = activities \o
              [i \in 1..n |-> Activity("vc_received", OfferedIds[i])]
         /\ UNCHANGED <<pending, isUnlocked>> /\ last' = Call("acceptCredentialOffer", arg,
                         Ok([t |-> "obj", received |-> n]))
         /\ UNCHANGED <<masterPassword, dids>>

NextExchange ==
  \/ setMasterPassword
  \/ clearMasterPassword
  \/ acceptCredentialOffer
  \/ getCredential
  \/ deleteCredential

SpecExchange == Init /\ [][NextExchange]_vars

\* ---------------------------------------------------------------- URIs
\* a query parameter as searchParams.get returns it: absent (null), empty,
\* text that is no JSON, JSON text, or JSON text with a bare '%' in it (which
\* decodeURIComponent rejects, the value being percent-decoded already)
Param(kind, of) == [kind |-> kind, of |-> of]
Falsy(param) == param.kind \in {"absent", "empty"}

\* JSON.parse(decodeURIComponent(param))
DecodeAndParse(param) ==
  IF param.kind = "json" THEN Ok(param.of) ELSE Thrown("SyntaxError")

\* what new URL(url) rejects
InvalidUrl == [kind |-> "invalid"]

OfferParams ==
  { Param("absent", Null), Param("empty", Null), Param("text", Str("offer")),
    Param("jsonpct", Str("100%")) }
    \cup { Param("json", [t |-> "obj", credential_issuer |-> "https://issuer.example",
                           credentials |-> types]) :
             types \in {<<Str("UniversityDegree")>>,
                        <<Str("UniversityDegree"), Str("DriverLicense")>>} }

OfferUrls ==
  {InvalidUrl} \cup
  [kind : {"url"}, credential_offer : OfferParams,
   credential_offer_uri : { Param("absent", Null), Param("empty", Null),
                            Param("text", Str("https://issuer.example/offer")) }]

\* parseCredentialOffer: every exception, the one thrown for
\* credential_offer_uri included, becomes null
ParseCredentialOffer(url) ==
  IF url.kind = "invalid" THEN NotFound
  ELSE IF ~Falsy(url.credential_offer)
    THEN LET offer == DecodeAndParse(url.credential_offer)
         IN  IF offer.kind = "error" THEN NotFound ELSE offer
  ELSE NotFound

parseCredentialOffer ==
  \E url \in OfferUrls :
    /\ UNCHANGED <<pending, isUnlocked>> /\ last' = Call("parseCredentialOffer", url, ParseCredentialOffer(url))
    /\ UNCHANGED <<masterPassword, tables>>

DefinitionParams ==
  { Param("absent", Null), Param("empty", Null), Param("text", Str("{id:")),
    Param("jsonpct", Str("100%")),
    Param("json", [t |-> "obj", id |-> "university_degree"]) }

RequestUrls ==
  {InvalidUrl} \cup
  [kind : {"url"},
   response_type : {Param("absent", Null), Param("empty", Null), Param("text", Str("code"))},
   client_id : {Param("absent", Null), Param("text", Str("https://verifier.example"))},
   redirect_uri : {Param("text", Str("https://verifier.example/cb"))},
   scope : {Param("absent", Null), Param("text", Str("profile"))},
   state : {Param("absent", Null), Param("empty", Null), Param("text", Str("s1"))},
   nonce : {Param("absent", Null), Param("text", Str("n1"))},
   presentation_definition : DefinitionParams]

\* searchParams.get(name) || fallback
OrElse(param, fallback) == IF Falsy(param) THEN fallback ELSE param.of

\* parsePresentationRequest: every exception becomes null
ParsePresentationRequest(url) ==
  IF url.kind = "invalid" THEN NotFound
  ELSE LET definition ==
             IF Falsy(url.presentation_definition) THEN Ok(Undefined)
             ELSE DecodeAndParse(url.presentation_definition)
       IN  IF definition.kind = "error" THEN NotFound
           ELSE Ok([t |-> "obj",
                    response_type |-> OrElse(url.response_type, Str("vp_token")),
                    client_id |-> OrElse(url.client_id, Str("")),
                    redirect_uri |-> OrElse(url.redirect_uri, Str("")),
                    scope |-> OrElse(url.scope, Str("openid")),
                    state |-> OrElse(url.state, Undefined),
                    nonce |-> OrElse(url.nonce, Undefined),
                    presentation_definition |-> definition.value])

parsePresentationRequest ==
  \E url \in RequestUrls :
    /\ UNCHANGED <<pending, isUnlocked>> /\ last' = Call("parsePresentationRequest", url, ParsePresentationRequest(url))
    /\ UNCHANGED <<masterPassword, tables>>

NextParse ==
  \/ parseCredentialOffer
  \/ parsePresentationRequest

SpecParse == Init /\ [][NextParse]_vars

\* ---------------------------------------------------------------- matching
\* the characters of the type names and descriptor ids
Chars ==
     "VerifiableCredential" :> <<"V", "e", "r", "i", "f", "i", "a", "b", "l", "e", "C", "r", "e", "d", "e", "n", "t", "i", "a", "l">>
  @@ "UniversityDegreeCredential" :> <<"U", "n", "i", "v", "e", "r", "s", "i", "t", "y", "D", "e", "g", "r", "e", "e", "C", "r", "e", "d", "e", "n", "t", "i", "a", "l">>
  @@ "DriverLicenseCredential" :> <<"D", "r", "i", "v", "e", "r", "L", "i", "c", "e", "n", "s", "e", "C", "r", "e", "d", "e", "n", "t", "i", "a", "l">>
  @@ "university_degree" :> <<"u", "n", "i", "v", "e", "r", "s", "i", "t", "y", "_", "d", "e", "g", "r", "e", "e">>
  @@ "University" :> <<"U", "n", "i", "v", "e", "r", "s", "i", "t", "y">>
  @@ "Degree" :> <<"D", "e", "g", "r", "e", "e">>
  @@ "driverlicense" :> <<"d", "r", "i", "v", "e", "r", "l", "i", "c", "e", "n", "s", "e">>

\* String.prototype.toLowerCase, character by character
LowerCase(text) ==
  LET lower == ("C" :> "c" @@ "D" :> "d" @@ "L" :> "l" @@ "U" :> "u" @@ "V" :> "v")
  IN  [i \in 1..Len(text) |->
         IF text[i] \in DOMAIN lower THEN lower[text[i]] ELSE text[i]]

\* String.prototype.includes
Includes(text, part) ==
  \E i \in 1..(Len(text) - Len(part) + 1) :
    SubSeq(text, i, i + Len(part) - 1) = part

\* a held credential and an input descriptor; paths are the paths of all
\* fields of the descriptor's constraints
HeldVC(id, typeName) ==
  [t |-> "obj", id |-> id, type |-> <<"VerifiableCredential", typeName>>]
Descriptor(id, paths) == [t |-> "obj", id |-> id, paths |-> paths]

\* matchesType of filterCredentialsForRequest
MatchesType(descriptor, credential) ==
  \E path \in descriptor.paths :
    /\ path = "$.type"
    /\ \E i \in 1..Len(credential.type) :
         Includes(LowerCase(Chars[credential.type[i]]),
                  LowerCase(Chars[descriptor.id]))

\* a filter that pushes every match
RECURSIVE FilterWithoutDedupe(_, _, _, _)
FilterWithoutDedupe(held, descriptors, k, matching) ==
  IF k >= Len(descriptors) * Len(held) THEN matching
  ELSE LET descriptor == descriptors[(k \div Len(held)) + 1]
           credential == held[(k % Len(held)) + 1]
       IN  FilterWithoutDedupe(held, descriptors, k + 1,
             IF MatchesType(descriptor, credential)
               THEN Append(matching, credential) ELSE matching)

\* the two loops of filterCredentialsForRequest, descriptors outside and
\* credentials inside, from the k-th pair on
RECURSIVE Filter(_, _, _, _)
Filter(held, descriptors, k, matching) ==
  IF k >= Len(descriptors) * Len(held) THEN matching
  ELSE LET descriptor == descriptors[(k \div Len(held)) + 1]
           credential == held[(k % Len(held)) + 1]
       IN  Filter(held, descriptors, k + 1,
             IF /\ MatchesType(descriptor, credential)
                /\ ~\E j \in 1..Len(matching) : matching[j].id = credential.id
               THEN Append(matching, credential) ELSE matching)

\* filterCredentialsForRequest: without definition, the held list
FilterCredentialsForRequest(held, presentationDefinition) ==
  IF presentationDefinition = Undefined THEN held
  ELSE Filter(held, presentationDefinition.input_descriptors, 0, << >>)

HeldLists ==
  LET S == { HeldVC("urn:uuid:1", "UniversityDegreeCredential"),
             HeldVC("urn:uuid:2", "DriverLicenseCredential"),
             HeldVC("urn:uuid:2", "UniversityDegreeCredential") }
  IN  UNION {[1..n -> S] : n \in 0..MaxVcs}

PresentationDefinitions ==
  LET D == { Descriptor("university_degree", {"$.type"}),
             Descriptor("University", {"$.type", "$.issuer"}),
             Descriptor("Degree", {"$.type"}),
             Descriptor("driverlicense", {"$.type"}),
             Descriptor("University", {"$.credentialSubject.degree"}) }
  IN  {Undefined} \cup
      { [t |-> "obj", id |-> "example-request", input_descriptors |-> ds] :
          ds \in UNION {[1..n -> D] : n \in 1..MaxDescriptors} }

\* the held list and the definition a call of filterCredentialsForRequest
\* is made with
InitFilter ==
  /\ masterPassword = NULL
  /\ dids = << >>
  /\ credentials = << >>
  /\ activities = << >>
  /\ pending = << >>
  /\ isUnlocked = FALSE
  /\ \E held \in HeldLists, presentationDefinition \in PresentationDefinitions :
       last = Call("arguments",
                   [credentials |-> held,
                    presentationDefinition |-> presentationDefinition],
                   Ok(Null))

filterCredentialsForRequest ==
  /\ last.op = "arguments"
  /\ last' = Call("filterCredentialsForRequest", last.arg,
                  Ok(FilterCredentialsForRequest(last.arg.credentials,
                                                 last.arg.presentationDefinition)))
  /\ UNCHANGED <<masterPassword, tables, pending, isUnlocked>>

NextFilter == filterCredentialsForRequest
SpecFilter == InitFilter /\ [][NextFilter]_vars

\* ---------------------------------------------------------------- responses
\* the requests parsePresentationRequest hands to the Exchange page, the
\* redirect_uri given or absent
ParsedRequests ==
  { ParsePresentationRequest([url EXCEPT !.redirect_uri = redirect_uri]).value :
      url \in { u \in RequestUrls \ {InvalidUrl} :
                  /\ u.response_type.kind = "absent"
                  /\ u.scope.kind = "absent"
                  /\ u.presentation_definition.kind = "absent" },
      redirect_uri \in { Param("absent", Null),
                         Param("text", Str("https://verifier.example/cb")) } }

FailedToGenerate(error) ==
  [message |-> "Failed to generate presentation response", cause |-> error]

\* the body of generatePresentationResponse after signPresentation has
\* answered: new URL(redirect_uri) rejects the empty text; vp_token is set to
\* the JSON text of the signed presentation, state only when truthy
ResponseUrl(request, signedPresentation) ==
  IF signedPresentation.kind = "error"
    THEN Thrown(FailedToGenerate(signedPresentation.value))
  ELSE IF request.redirect_uri = Str("")
    THEN Thrown(FailedToGenerate("Invalid URL"))
  ELSE Ok([kind |-> "url", base |-> request.redirect_uri,
           vp_token |-> JSONStringify(signedPresentation.value),
           state |-> IF request.state \in {Undefined, Str("")}
                       THEN Param("absent", Null)
                       ELSE Param("text", request.state)])

\* the credentials the holder selects from
Selectable ==
  { CreateCredential("urn:uuid:1", "did:ethr:0xA", "BSc"),
    CreateCredential("urn:uuid:2", "did:ethr:0xB", "MSc") }

generatePresentationResponse ==
  \E request \in ParsedRequests, selectedCredentials \in Lists(Selectable),
     holderDID \in DIDs :
    LET presentation == CreatePresentation(selectedCredentials, holderDID,
                                           request.nonce, request.client_id)
        didData == IF Locked THEN Thrown(NotUnlocked)
                   ELSE GetDIDResult(dids, masterPassword, holderDID)
    IN  /\ UNCHANGED <<pending, isUnlocked>> /\ last' = Call("generatePresentationResponse",
                        [request |-> request,
                         selectedCredentials |-> selectedCredentials,
                         holderDID |-> holderDID],
                        ResponseUrl(request,
                          SignPresentationResult(didData, presentation, holderDID)))
        /\ UNCHANGED <<masterPassword, tables>>

NextRespond ==
  \/ setMasterPassword
  \/ clearMasterPassword
  \/ generatePresentationResponse

SpecRespond == InitPresent /\ [][NextRespond]_vars

\* ---------------------------------------------------------------- issuing
\* the logging configuration of N8NService and what fetch does when called
Channels ==
  { [loggingEnabled |-> FALSE, webhookUrl |-> Undefined, fetch |-> "resolves"],
    [loggingEnabled |-> TRUE, webhookUrl |-> Undefined, fetch |-> "resolves"],
    [loggingEnabled |-> TRUE, webhookUrl |-> Str("https://n8n.example/hook"),
     fetch |-> "resolves"],
    [loggingEnabled |-> TRUE, webhookUrl |-> Str("https://n8n.example/hook"),
     fetch |-> "rejects"] }

\* a sendLog without its try/catch
SendLogUncaught(channel) ==
  IF ~channel.loggingEnabled \/ channel.webhookUrl = Undefined THEN Ok(Bool(FALSE))
  ELSE IF channel.fetch = "rejects" THEN Thrown("TypeError: Failed to fetch")
  ELSE Ok(Bool(TRUE))

\* N8NService.sendLog, which logCredentialIssued comes down to: false when
\* disabled or when the request fails
SendLog(channel) ==
  IF ~channel.loggingEnabled \/ channel.webhookUrl = Undefined THEN Ok(Bool(FALSE))
  ELSE IF channel.fetch = "rejects" THEN Ok(Bool(FALSE))
  ELSE Ok(Bool(TRUE))

\* createCredential, signCredential, storeCredential and logCredentialIssued
\* for one recipient, on the tables in progress; issued tells whether the
\* four went through
IssueOne(progress, password, userDID, degree, salt, channel) ==
  LET \* the id crypto.randomUUID gives the next credential of the table
      vcId == <<"urn:uuid:1", "urn:uuid:2", "urn:uuid:3", "urn:uuid:4">>
                [Len(progress.credentials) + 1]
      credential == CreateCredential(vcId, userDID, degree)
      didData == IF password = NULL THEN Thrown(NotUnlocked)
                 ELSE GetDIDResult(dids, password, userDID)
      signed == SignCredentialResult(didData, credential, userDID)
  IN  IF signed.kind = "error" THEN [progress EXCEPT !.issued = FALSE]
      ELSE [progress EXCEPT
              !.credentials = Append(@, StoredCredential(signed.value,
                                Encrypt(signed.value, password, salt))),
              !.activities = LogActivity(@, "vc_received", signed.value.id),
              !.issued = SendLog(channel).kind = "ok"]

\* the data rows of a CSV text whose header names two columns, the
\* recipient's DID and one attribute
Rows == { <<"did:ethr:0xB", "BSc">>, <<"did:ethr:0xB">> }

\* the loop of issueBulkCredentials from row i on: a row whose number of
\* values differs from the number of headers is passed over
RECURSIVE IssueRows(_, _, _, _, _, _, _)
IssueRows(rows, i, progress, password, userDID, salt, channel) ==
  IF i > Len(rows) THEN progress
  ELSE IF Len(rows[i]) # Len(<<"did", "degree">>)
    THEN IssueRows(rows, i + 1, progress, password, userDID, salt, channel)
  ELSE LET row == IssueOne(progress, password, userDID, rows[i][2], salt, channel)
       IN  IssueRows(rows, i + 1,
             [row EXCEPT !.successCount = @ + (IF row.issued THEN 1 ELSE 0),
                         !.failCount = @ + (IF row.issued THEN 0 ELSE 1)],
             password, userDID, salt, channel)

\* userDID is the identity the Issue page issues as
issueSingleCredential ==
  \E recipientDID \in {"", "did:ethr:0xB"}, userDID \in {"", "did:ethr:0xA"},
     salt \in Salts, channel \in Channels :
    /\ Len(credentials) < MaxRows
    /\ IF recipientDID = ""
         THEN /\ UNCHANGED <<pending, isUnlocked>> /\ last' = Call("issueSingleCredential",
                              [recipientDID |-> recipientDID, channel |-> channel],
                              Ok(Str("Missing Information")))
              /\ UNCHANGED <<masterPassword, tables>>
         ELSE LET done == IssueOne([credentials |-> credentials,
                                    activities |-> activities, issued |-> FALSE],
                                   masterPassword, userDID, "BSc", salt, channel)
              IN  /\ credentials' = done.credentials
                  /\ activities' = done.activities
                  /\ UNCHANGED <<pending, isUnlocked>> /\ last' = Call("issueSingleCredential",
                              [recipientDID |-> recipientDID, channel |-> channel],
                                  Ok(Str(IF done.issued THEN "Credential Issued"
                                         ELSE "Issuance Failed")))
                  /\ UNCHANGED <<masterPassword, dids>>

issueBulkCredentials ==
  \E rows \in UNION {[1..n -> Rows] : n \in 1..MaxRows}, userDID \in {"", "did:ethr:0xA"},
     salt \in Salts, channel \in Channels :
    /\ Len(credentials) + Len(rows) <= MaxRows
    /\ LET done == IssueRows(rows, 1,
                     [credentials |-> credentials, activities |-> activities,
                      issued |-> FALSE, successCount |-> 0, failCount |-> 0],
                     masterPassword, userDID, salt, channel)
       IN  /\ credentials' = done.credentials
           /\ activities' = done.activities
           /\ UNCHANGED <<pending, isUnlocked>> /\ last' = Call("issueBulkCredentials",
                           [rows |-> rows, channel |-> channel],
                           Ok([t |-> "obj", successCount |-> done.successCount,
                               failCount |-> done.failCount]))
           /\ UNCHANGED <<masterPassword, dids>>

NextIssue ==
  \/ setMasterPassword
  \/ clearMasterPassword
  \/ issueSingleCredential
  \/ issueBulkCredentials

SpecIssue == InitPresent /\ [][NextIssue]_vars

\* ---------------------------------------------------------------- concurrency
\* A call of the store runs up to its first await in one piece: it reads the
\* master password, encrypts or keeps the password for decrypting, and makes
\* its request to db.  Dexie opens the transaction of a request when the
\* request is made, and IndexedDB runs the transactions on one object store
\* in the order they were opened.  atStart is what the call would answer if
\* it ran in one piece where it starts.
Request(op, store, key, secret, row, atStart) ==
  [op |-> op, store |-> store, key |-> key, secret |-> secret, row |-> row,
   atStart |-> atStart]

\* the table a store comes to when the requests in flight on it are done
RECURSIVE Settled(_, _, _)
Settled(table, store, queue) ==
  IF queue = << >> THEN table
  ELSE LET r == Head(queue)
       IN  Settled(IF r.store # store THEN table
                   ELSE IF r.op \in {"storeDID", "storeCredential"}
                     THEN Append(table, r.row)
                   ELSE IF r.op = "deleteDID" THEN Without(table, "did", r.key)
                   ELSE IF r.op = "deleteCredential" THEN Without(table, "vcId", r.key)
                   ELSE table,
                   store, Tail(queue))

\* room for one more call: the calls in flight and the calls that have
\* written the log are counted
Room == Len(pending) + Len(activities) < MaxPending

beginStoreDID ==
  \E identity \in {<<"did:ethr:0xA", Str("0xkeyA")>>}, salt \in {"s0"} :
    IF Locked
      THEN /\ pending' = pending
           /\ last' = Call("storeDID", Str(identity[1]), Thrown(NotUnlocked))
           /\ UNCHANGED <<isUnlocked, masterPassword, tables>>
      ELSE /\ Room
           /\ pending' = Append(pending,
                Request("storeDID", "dids", identity[1], masterPassword,
                        StoredDID(identity[1],
                                  Encrypt(identity[2], masterPassword, salt)),
                        Ok(Null)))
           /\ UNCHANGED <<isUnlocked, masterPassword, tables, last>>

beginStoreCredential ==
  \E credential \in Credentials, salt \in {"s0"} :
    IF Locked
      THEN /\ pending' = pending
           /\ last' = Call("storeCredential", Str(credential.id), Thrown(NotUnlocked))
           /\ UNCHANGED <<isUnlocked, masterPassword, tables>>
      ELSE /\ Room
           /\ pending' = Append(pending,
                Request("storeCredential", "credentials", credential.id,
                        masterPassword,
                        StoredCredential(credential,
                                         Encrypt(credential, masterPassword, salt)),
                        Ok(Null)))
           /\ UNCHANGED <<isUnlocked, masterPassword, tables, last>>

beginGetDID ==
  \E did \in {"did:ethr:0xA"} :
    IF Locked
      THEN /\ pending' = pending
           /\ last' = Call("getDID", Str(did), Thrown(NotUnlocked))
           /\ UNCHANGED <<isUnlocked, masterPassword, tables>>
      ELSE /\ Room
           /\ pending' = Append(pending,
                Request("getDID", "dids", did, masterPassword, Null,
                        GetDIDResult(Settled(dids, "dids", pending),
                                     masterPassword, did)))
           /\ UNCHANGED <<isUnlocked, masterPassword, tables, last>>

beginGetCredential ==
  \E vcId \in VcIds :
    IF Locked
      THEN /\ pending' = pending
           /\ last' = Call("getCredential", Str(vcId), Thrown(NotUnlocked))
           /\ UNCHANGED <<isUnlocked, masterPassword, tables>>
      ELSE /\ Room
           /\ pending' = Append(pending,
                Request("getCredential", "credentials", vcId, masterPassword, Null,
                        GetCredentialResult(Settled(credentials, "credentials", pending),
                                            masterPassword, vcId)))
           /\ UNCHANGED <<isUnlocked, masterPassword, tables, last>>

beginDeleteDID ==
  \E did \in {"did:ethr:0xA"} :
    /\ Room
    /\ pending' = Append(pending,
         Request("deleteDID", "dids", did, masterPassword, Null, Ok(Null)))
    /\ UNCHANGED <<isUnlocked, masterPassword, tables, last>>

beginDeleteCredential ==
  \E vcId \in VcIds :
    /\ Room
    /\ pending' = Append(pending,
         Request("deleteCredential", "credentials", vcId, masterPassword, Null,
                 Ok(Null)))
    /\ UNCHANGED <<isUnlocked, masterPassword, tables, last>>

\* a request may be done in any order
AnyOrder(queue, i) == TRUE

\* no older request is in flight on the same object store
Oldest(queue, i) == \A j \in 1..(i - 1) : queue[j].store # queue[i].store

\* db does the request at i and the call goes on to its next await or returns
settle ==
  \E i \in 1..Len(pending) :
    LET r == pending[i]
        \* the queue without the request, and with the call's logActivity
        \* request made behind the others
        Removed == SubSeq(pending, 1, i - 1) \o SubSeq(pending, i + 1, Len(pending))
        ThenLog == Append(Removed,
                     Request(r.op, "activities", r.key, NULL, Null, Ok(Null)))
    IN  /\ Oldest(pending, i)
        /\ CASE r.store = "activities" ->
                  /\ activities' = LogActivity(activities,
                        CASE r.op = "storeDID" -> "did_created"
                          [] r.op = "deleteDID" -> "did_deleted"
                          [] r.op = "storeCredential" -> "vc_received"
                          [] OTHER -> "vc_deleted", r.key)
                  /\ pending' = Removed
                  /\ last' = Call(r.op, Str(r.key), Ok(Null)) @@ [atStart |-> r.atStart]
                  /\ UNCHANGED <<isUnlocked, masterPassword, dids, credentials>>
             [] r.op = "storeDID" ->
                  /\ dids' = Append(dids, r.row)
                  /\ pending' = ThenLog
                  /\ UNCHANGED <<isUnlocked, masterPassword, credentials, activities, last>>
             [] r.op = "deleteDID" ->
                  /\ dids' = Without(dids, "did", r.key)
                  /\ pending' = ThenLog
                  /\ UNCHANGED <<isUnlocked, masterPassword, credentials, activities, last>>
             [] r.op = "storeCredential" ->
                  /\ credentials' = Append(credentials, r.row)
                  /\ pending' = ThenLog
                  /\ UNCHANGED <<isUnlocked, masterPassword, dids, activities, last>>
             [] r.op = "deleteCredential" ->
                  /\ credentials' = Without(credentials, "vcId", r.key)
                  /\ pending' = ThenLog
                  /\ UNCHANGED <<isUnlocked, masterPassword, dids, activities, last>>
             [] r.op = "getDID" ->
                  /\ pending' = Removed
                  /\ last' = Call("getDID", Str(r.key),
                                  GetDIDResult(dids, r.secret, r.key))
                               @@ [atStart |-> r.atStart]
                  /\ UNCHANGED <<isUnlocked, masterPassword, tables>>
             [] OTHER ->
                  /\ pending' = Removed
                  /\ last' = Call("getCredential", Str(r.key),
                                  GetCredentialResult(credentials, r.secret, r.key))
                               @@ [atStart |-> r.atStart]
                  /\ UNCHANGED <<isUnlocked, masterPassword, tables>>

NextConcurrent ==
  \/ setMasterPassword
  \/ clearMasterPassword
  \/ beginStoreDID
  \/ beginStoreCredential
  \/ beginGetDID
  \/ beginGetCredential
  \/ beginDeleteDID
  \/ beginDeleteCredential
  \/ settle

SpecConcurrent == Init /\ [][NextConcurrent]_vars

\* ---------------------------------------------------------------- pages
\* what a page keeps of the identity it resolved: its DID, or '' for none
Held(didData) == IF didData.kind = "ok" THEN Str(didData.value.did) ELSE Str("")

\* a reload of the application: the static masterPassword and the page's
\* flag start over, the tables of db persist
reload ==
  /\ masterPassword' = NULL
  /\ isUnlocked' = FALSE
  /\ pending' = << >>
  /\ last' = Call("reload", Null, Ok(Null))
  /\ UNCHANGED tables

\* Index.unlockWallet.  The form is shown while isUnlocked is false; the
\* entered password is handed to the store before it is verified on the first
\* stored identity.
unlockWallet ==
  \E entered \in Passwords :
    /\ ~isUnlocked
    /\ pending' = pending
    /\ IF entered = ""
         THEN /\ last' = Call("unlockWallet", Str(entered),
                              Ok([t |-> "obj", title |-> "Error", did |-> Str("")]))
              /\ UNCHANGED <<masterPassword, tables, isUnlocked>>
         ELSE LET firstDID == IF dids = << >> THEN NotFound
                              ELSE GetDIDResult(dids, entered, dids[1].did)
              IN  /\ masterPassword' = entered
                  /\ isUnlocked' = (firstDID.kind # "error")
                  /\ last' = Call("unlockWallet", Str(entered),
                       IF firstDID.kind = "error"
                         THEN Ok([t |-> "obj", title |-> "Unlock Failed",
                                  did |-> Str("")])
                         ELSE Ok([t |-> "obj", title |-> "Wallet Unlocked",
                                  did |-> Held(firstDID)]))
                  /\ UNCHANGED tables

\* Issue.loadUserDID: getDID('current'); an exception leaves userDID as it is
loadUserDID ==
  /\ UNCHANGED <<pending, isUnlocked>>
  /\ last' = Call("loadUserDID", Null,
                  Ok([t |-> "obj",
                      did |-> Held(IF Locked THEN Thrown(NotUnlocked)
                                   ELSE GetDIDResult(dids, masterPassword, "current"))]))
  /\ UNCHANGED <<masterPassword, tables>>

\* ImportExportDialog.exportData for type 'did': getDID('current')
exportData ==
  /\ UNCHANGED <<pending, isUnlocked>>
  /\ last' = LET didData == IF Locked THEN Thrown(NotUnlocked)
                            ELSE GetDIDResult(dids, masterPassword, "current")
             IN  Call("exportData", Str("did"),
                      IF didData.kind = "error" THEN Thrown("Export Failed")
                      ELSE Ok([t |-> "obj", did |-> Held(didData)]))
  /\ UNCHANGED <<masterPassword, tables>>

\* the active identity of the session: the one unlockWallet resolves
GetCurrentDID(table, password) ==
  IF table = << >> THEN NotFound ELSE GetDIDResult(table, password, table[1].did)

\* Exchange.loadUserData.  The StorageService of storage.ts defines no
\* getCurrentDID: the call throws a TypeError, which is caught, or, where the
\* method exists, answers the active identity.
loadUserData ==
  \E getCurrentDIDDefined \in BOOLEAN :
    /\ UNCHANGED <<pending, isUnlocked>>
    /\ last' = Call("loadUserData", Bool(getCurrentDIDDefined),
                    Ok([t |-> "obj",
                        did |-> Held(IF ~getCurrentDIDDefined THEN Thrown(TypeError)
                                     ELSE IF Locked THEN Thrown(NotUnlocked)
                                     ELSE GetCurrentDID(dids, masterPassword))]))
    /\ UNCHANGED <<masterPassword, tables>>

AlreadyExists ==
  "DID import failed: A DID already exists. Please export it first if you want to replace it."

\* ImportExportDialog.importDID: an existing identity is looked for with
\* getDID('current')
importDID ==
  \E didData \in [did : DIDs, privateKey : {Undefined, Str("0xkeyA")}], salt \in Salts :
    LET arg == [t |-> "obj", did |-> didData.did,
                privateKey |-> didData.privateKey]
        existingDID == IF Locked THEN Thrown(NotUnlocked)
                       ELSE GetDIDResult(dids, masterPassword, "current")
    IN
    IF didData.privateKey = Undefined
      THEN /\ UNCHANGED <<pending, isUnlocked>>
           /\ last' = Call("importDID", arg,
                           Thrown("DID import failed: Invalid DID data structure"))
           /\ UNCHANGED <<masterPassword, tables>>
    ELSE IF existingDID.kind = "error"
      THEN /\ UNCHANGED <<pending, isUnlocked>>
           /\ last' = Call("importDID", arg, Thrown("DID import failed"))
           /\ UNCHANGED <<masterPassword, tables>>
    ELSE IF existingDID.kind = "ok"
      THEN /\ UNCHANGED <<pending, isUnlocked>>
           /\ last' = Call("importDID", arg, Thrown(AlreadyExists))
           /\ UNCHANGED <<masterPassword, tables>>
    ELSE /\ Len(dids) < MaxDids
         /\ Len(activities) < MaxLog
         /\ dids' = Append(dids,
              StoredDID(didData.did,
                        Encrypt(didData.privateKey, masterPassword, salt)))
         /\ activities' = LogActivity(activities, "did_created", didData.did)
         /\ UNCHANGED <<pending, isUnlocked>>
         /\ last' = Call("importDID", arg, Ok(Str("DID Imported Successfully")))
         /\ UNCHANGED <<masterPassword, credentials>>

NextPages ==
  \/ reload
  \/ unlockWallet
  \/ importDID
  \/ loadUserDID
  \/ exportData
  \/ loadUserData

SpecPages == Init /\ [][NextPages]_vars

\* ---------------------------------------------------------------- properties
\* the session holds no secret
NoSecret == masterPassword \notin Secrets

IsPrefix(s, t) == Len(s) <= Len(t) /\ \A i \in 1..Len(s) : s[i] = t[i]

HasDID(did) == \E i \in 1..Len(dids) : dids[i].did = did
HasCredential(vcId) == \E i \in 1..Len(credentials) : credentials[i].vcId = vcId

\* C1: while the session holds no secret, storeDID, storeCredential, getDID,
\* getCredential and exportWallet fail with NotUnlocked and leave the three
\* tables as they were.
C1_LockedCallsFail ==
  [][ (NoSecret /\ last'.op \in {"storeDID", "storeCredential", "getDID",
                                 "getCredential", "exportWallet"})
        => (/\ last'.kind = "error"
            /\ last'.value = NotUnlocked
            /\ UNCHANGED tables) ]_vars

\* a session locked again over a store that holds records, and an export
\* refused in it
C1_Witness ==
  /\ masterPassword = NULL
  /\ dids # << >>
  /\ credentials # << >>
  /\ last.op = "exportWallet"
  /\ last.kind = "error"

\* C2: setMasterPassword with a non-empty secret always unlocks without
\* touching a record, and a getDID / getCredential that reaches a record
\* encrypted under another secret fails with DecryptionFailed.
C2_WrongSecretDetected ==
  [][ /\ (last'.op = "setMasterPassword" /\ last'.arg.s # "")
           => (masterPassword' = last'.arg.s /\ last'.kind = "ok"
               /\ UNCHANGED tables)
      /\ (last'.op = "getDID" /\ ~NoSecret)
           => LET i == First(dids, "did", last'.arg.s)
              IN  (i # 0 /\ dids[i].encryptedPrivateKey.key # masterPassword)
                    => (last'.kind = "error" /\ last'.value = DecryptionFailed)
      /\ (last'.op = "getCredential" /\ ~NoSecret)
           => LET i == First(credentials, "vcId", last'.arg.s)
              IN  (i # 0 /\ credentials[i].encryptedData.key # masterPassword)
                    => (last'.kind = "error" /\ last'.value = DecryptionFailed)
    ]_vars

C4_StoreRoundTrip ==
  [][ (last'.op = "getDID" /\ ~NoSecret)
        => \A j \in 1..Len(dids) :
             dids[j].did = last'.arg.s
               => IF dids[j].encryptedPrivateKey.key = masterPassword
                    THEN /\ last'.kind = "ok"
                         /\ last'.value.privateKey = dids[j].encryptedPrivateKey.msg.of
                    ELSE /\ last'.kind = "error"
                         /\ last'.value = DecryptionFailed ]_vars

\* C5: no persisted table changes while the session holds no secret.
C5_NoChangeWhileLocked ==
  [][ NoSecret => UNCHANGED tables ]_vars

\* C6: every mutating operation that returned normally and changed a table
\* left an activity entry that was not there before.
C6_MutationsAreLogged ==
  [][ (/\ last'.op \in {"storeDID", "deleteDID", "storeCredential",
                        "deleteCredential", "updateCredentialStatus",
                        "importWallet", "clearAllData"}
       /\ last'.kind = "ok"
       /\ tables' # tables)
        => \/ Len(activities') > Len(activities)
           \/ /\ last'.op = "importWallet"
              /\ activities' # << >>
              /\ activities'[Len(activities')].type = "wallet_imported" ]_vars

Invalid(data) ==
  \/ \E i \in 1..Len(data.dids) :
       data.dids[i].t = "null" \/ data.dids[i].privateKey.t = "undef"
  \/ \E i \in 1..Len(data.credentials) :
       data.credentials[i].t = "null" \/ data.credentials[i].credential.t = "undef"

\* C8: an importWallet of a snapshot with an invalid record, or one that
\* fails, fails and leaves the three tables as they were.
C8_ImportAllOrNothing ==
  [][ (last'.op = "importWallet"
       /\ (last'.kind = "error" \/ Invalid(last'.arg.data)))
        => (last'.kind = "error" /\ UNCHANGED tables) ]_vars

\* C9: right after importWallet of a just exported snapshot under a secret
\* s2 other than the session's, getDID under s2 returns for every exported
\* identity its exported private key and getCredential for every exported
\* credential its exported plaintext.
C9_ExportImportRoundTrip ==
  (/\ last.op = "importWallet"
   /\ last.kind = "ok"
   /\ last.arg.data \notin WrittenSnapshots
   /\ last.arg.newMasterPassword # ""
   /\ last.arg.newMasterPassword # masterPassword)
    => LET data == last.arg.data
           s2 == last.arg.newMasterPassword
       IN  /\ \A i \in 1..Len(data.dids) :
                GetDIDResult(dids, s2, data.dids[i].did)
                  = Ok([did |-> data.dids[i].did,
                        privateKey |-> data.dids[i].privateKey])
           /\ \A i \in 1..Len(data.credentials) :
                GetCredentialResult(credentials, s2, data.credentials[i].vcId)
                  = Ok(data.credentials[i].credential)

\* C10: no persisted identity row holds a private key in plaintext and no
\* persisted credential row holds the credential in plaintext.
C10_NoPlaintextAtRest ==
  /\ \A i \in 1..Len(dids) : dids[i].privateKey.t = "undef"
  /\ \A i \in 1..Len(credentials) : credentials[i].credential.t = "undef"

\* C11: a credential created by createCredential and signed by signCredential
\* with the key held for its issuer verifies as it is, and no copy of it with
\* a field other than proof changed verifies.
C11_TamperDetection ==
  [][ (/\ last.op = "signCredential" /\ last.kind = "ok"
       /\ "proof" \notin DOMAIN last.arg.credential
       /\ last.arg.issuerDID = last.arg.credential.issuer
       /\ last'.op = "verifyCredential")
        => /\ (last'.arg = last.value) => (last'.value = Bool(TRUE))
           /\ (last'.arg \in TamperedCopies(last.value)) => (last'.value = Bool(FALSE))
    ]_vars

\* C12: the message signCredential and signPresentation sign is the entity
\* without its proof, the message verification rebuilds, and a signed
\* credential that is signed again verifies.
C12_SignedOverEntityWithoutProof ==
  /\ (last.op \in {"signCredential", "signPresentation"} /\ last.kind = "ok")
       => last.value.proof.signature.msg = JSONStringify(WithoutProof(last.value))
  /\ (last.op = "signCredential" /\ last.kind = "ok"
        /\ "proof" \in DOMAIN last.arg.credential
        /\ VerifyCredential(last.arg.credential).value)
       => VerifyCredential(last.value).value

\* C13: signCredential fails with NotUnlocked in a locked session and with
\* IdentityNotFound in an unlocked session that holds no record of the
\* issuer; the two failures differ, and the tables stay as they were.
C13_SignFailures ==
  [][ (last'.op = "signCredential")
        => /\ Locked
                => (/\ last'.kind = "error"
                    /\ last'.value.cause = NotUnlocked
                    /\ UNCHANGED tables)
           /\ (~Locked /\ ~HasDID(last'.arg.issuerDID))
                => (/\ last'.kind = "error"
                    /\ last'.value.cause = IssuerNotFound
                    /\ last'.value.cause # NotUnlocked
                    /\ UNCHANGED tables)
    ]_vars

\* an unlocked session that holds an identity, and a signCredential for
\* another issuer refused in it
C13_Witness ==
  /\ ~Locked
  /\ dids # << >>
  /\ last.op = "signCredential"
  /\ ~HasDID(last.arg.issuerDID)
  /\ last.kind = "error"

\* what verifyCredential finds wrong: no credential, no proof, no signature,
\* no did:ethr issuer, a signature over another message or by another key
Defective(credential) ==
  \/ credential.t # "obj"
  \/ "proof" \notin DOMAIN credential
  \/ credential.proof.signature = Undefined
  \/ "issuer" \notin DOMAIN credential
  \/ ExtractAddressFromDID(credential.issuer) = NULL
  \/ credential.proof.signature.msg # JSONStringify(WithoutProof(credential))
  \/ credential.proof.signature.signer # ExtractAddressFromDID(credential.issuer)

\* C14: verifyCredential never raises, and answers false for a credential
\* without proof, with a proof without signature, with an issuer that is no
\* did:ethr DID, or with a signature that does not match.
C14_VerifyNeverRaises ==
  (last.op = "verifyCredential")
    => /\ last.kind = "ok"
       /\ last.value.t = "bool"
       /\ Defective(last.arg) => (last.value = Bool(FALSE))

\* a proof without signature, answered with false
C14_Witness ==
  /\ last.op = "verifyCredential"
  /\ last.arg.t = "obj"
  /\ "proof" \in DOMAIN last.arg
  /\ last.arg.proof.signature = Undefined
  /\ last.kind = "ok"
  /\ last.value = Bool(FALSE)

\* the presentation's own proof verifies under the holder's address
HolderProofVerifies(presentation) ==
  /\ presentation.t = "obj"
  /\ "proof" \in DOMAIN presentation
  /\ "holder" \in DOMAIN presentation
  /\ ExtractAddressFromDID(presentation.holder) # NULL
  /\ VerifySignature(WithoutProof(presentation), presentation.proof.signature,
                     ExtractAddressFromDID(presentation.holder)).value

Embedded(presentation) ==
  IF presentation.t = "obj" /\ "verifiableCredential" \in DOMAIN presentation
    THEN presentation.verifiableCredential ELSE << >>

\* C15: verifyPresentation answers true exactly when the holder's proof
\* verifies and verifyCredential holds of every embedded credential.
C15_PresentationValidity ==
  (last.op = "verifyPresentation")
    => (last.value = Bool(TRUE)
          <=> /\ HolderProofVerifies(last.arg)
              /\ \A i \in 1..Len(Embedded(last.arg)) :
                   VerifyCredential(Embedded(last.arg)[i]).value)

\* a presentation whose holder proof verifies, refused for an embedded
\* credential
C15_Witness ==
  /\ last.op = "verifyPresentation"
  /\ HolderProofVerifies(last.arg)
  /\ last.value = Bool(FALSE)

\* C16: verifyPresentation verifies the embedded credentials in list order
\* and none after the first that fails, and none at all when the holder's
\* proof fails.
C16_FailFast ==
  (last.op = "verifyPresentation")
    => /\ last.verified = [i \in 1..Len(last.verified) |-> i]
       /\ Len(last.verified) <= Len(Embedded(last.arg))
       /\ ~HolderProofVerifies(last.arg) => (last.verified = << >>)
       /\ \A i \in 1..Len(last.verified) :
            VerifyCredential(Embedded(last.arg)[i]).value
              \/ (i = Len(last.verified) /\ last.value = Bool(FALSE))
       /\ (last.value = Bool(TRUE) /\ HolderProofVerifies(last.arg))
            => Len(last.verified) = Len(Embedded(last.arg))

\* the first of two embedded credentials fails and the second is not verified
C16_Witness ==
  /\ last.op = "verifyPresentation"
  /\ HolderProofVerifies(last.arg)
  /\ Len(Embedded(last.arg)) = 2
  /\ last.verified = <<1>>
  /\ last.value = Bool(FALSE)

\* the entries of an offer that name a type
Obtainable(types) == {i \in 1..Len(types) : types[i].t = "str"}

\* the credentials the store holds under the session's secret
Persisted(table, password) ==
  [i \in 1..Len(table) |-> Decrypt(table[i].encryptedData, password).value]

\* C17: acceptOffer handles each offered type on its own: when one type
\* fails, the credentials of the other types are persisted all the same and
\* the caller receives the counts instead of an error.
C17_IndependentTypes ==
  [][ (/\ last'.op = "acceptCredentialOffer"
       /\ last'.arg.userDID # ""
       /\ ~Locked
       /\ Obtainable(last'.arg.credentials) # {}
       /\ Obtainable(last'.arg.credentials) # DOMAIN last'.arg.credentials)
        => /\ last'.kind = "ok"
           /\ Len(credentials') =
                Len(credentials) + Cardinality(Obtainable(last'.arg.credentials))
    ]_vars

\* C18: a successful acceptOffer of n types leaves n new credentials in the
\* store, each with a proof that verifyCredential accepts.
C18_IssuedAreSigned ==
  [][ (last'.op = "acceptCredentialOffer" /\ last'.kind = "ok"
         /\ last'.arg.userDID # "")
        => /\ Len(credentials') = Len(credentials) + Len(last'.arg.credentials)
           /\ \A i \in (Len(credentials) + 1)..Len(credentials') :
                LET credential == Persisted(credentials', masterPassword)[i]
                IN  /\ "proof" \in DOMAIN credential
                    /\ VerifyCredential(credential).value
    ]_vars

\* C19: for a URI that carries only credential_offer_uri, parseCredentialOffer
\* returns an offer that is not yet resolved, not the null it returns for a
\* URI whose offer parameter is missing or no JSON.
C19_UnresolvedOfferVariant ==
  (/\ last.op = "parseCredentialOffer"
   /\ last.arg.kind = "url"
   /\ last.arg.credential_offer.kind = "absent"
   /\ last.arg.credential_offer_uri.kind = "text")
    => last.kind # "null"

\* C20: parsePresentationRequest returns null whenever the URI carries a
\* presentation_definition parameter that does not decode as JSON, never a
\* request without its definition.
C20_UndecodableDefinition ==
  (/\ last.op = "parsePresentationRequest"
   /\ last.arg.kind = "url"
   /\ last.arg.presentation_definition.kind \in {"empty", "text"})
    => last.kind = "null"

\* some declared type of the credential contains the descriptor's id,
\* compared in lower case
TypeContainsId(credential, descriptor) ==
  \E i \in 1..Len(credential.type) :
    Includes(LowerCase(Chars[credential.type[i]]), LowerCase(Chars[descriptor.id]))

InResult(credential) == \E j \in 1..Len(last.value) : last.value[j] = credential

\* C21: with a definition, filterCredentialsForRequest includes a held
\* credential exactly when one of its types contains the id of some input
\* descriptor, case-insensitively; for the one descriptor "university_degree"
\* a UniversityDegreeCredential is included and a DriverLicenseCredential is
\* not.
C21_FilterByTypeSubstring ==
  (/\ last.op = "filterCredentialsForRequest"
   /\ last.arg.presentationDefinition # Undefined)
    => LET held == last.arg.credentials
           descriptors == last.arg.presentationDefinition.input_descriptors
       IN  /\ \A i \in 1..Len(held) :
                InResult(held[i])
                  <=> \E d \in 1..Len(descriptors) :
                        TypeContainsId(held[i], descriptors[d])
           /\ (Len(descriptors) = 1 /\ descriptors[1].id = "university_degree")
                => \A i \in 1..Len(held) :
                     /\ held[i].type[2] = "UniversityDegreeCredential"
                          => InResult(held[i])
                     /\ held[i].type[2] = "DriverLicenseCredential"
                          => ~InResult(held[i])

\* C22: the result of filterCredentialsForRequest for a definition holds no
\* two credentials with the same id, and only credentials of the held list.
C22_NoDuplicateIds ==
  (/\ last.op = "filterCredentialsForRequest"
   /\ last.arg.presentationDefinition # Undefined)
    => /\ \A i, j \in 1..Len(last.value) :
            (last.value[i].id = last.value[j].id) => (i = j)
       /\ \A j \in 1..Len(last.value) :
            \E i \in 1..Len(last.arg.credentials) :
              last.arg.credentials[i] = last.value[j]

\* two different descriptors match the one held credential, which is in the
\* result once
C22_Witness ==
  /\ last.op = "filterCredentialsForRequest"
  /\ last.arg.presentationDefinition # Undefined
  /\ Len(last.arg.presentationDefinition.input_descriptors) = 2
  /\ Len(last.arg.credentials) = 1
  /\ last.arg.presentationDefinition.input_descriptors[1]
       # last.arg.presentationDefinition.input_descriptors[2]
  /\ \A d \in 1..2 :
       MatchesType(last.arg.presentationDefinition.input_descriptors[d],
                   last.arg.credentials[1])
  /\ Len(last.value) = 1

\* the presentation a response's vp_token decodes to
Decoded(response) == DecodeAndParse(response.vp_token).value
FieldOr(record, field, fallback) ==
  IF field \in DOMAIN record THEN record[field] ELSE fallback
Responded == last.op = "generatePresentationResponse" /\ last.kind = "ok"

\* C23: generatePresentationResponse returns the redirect_uri with a vp_token
\* that decodes to a signed presentation whose challenge is the request's
\* nonce, whose domain is the request's client_id and whose credentials are
\* the selected ones in their order, and with a state parameter equal to the
\* request's state exactly when the request has one.
C23_ResponseCarriesRequest ==
  Responded
    => /\ last.value.base = last.arg.request.redirect_uri
       /\ DecodeAndParse(last.value.vp_token).kind = "ok"
       /\ "proof" \in DOMAIN Decoded(last.value)
       /\ FieldOr(Decoded(last.value), "challenge", Undefined) = last.arg.request.nonce
       /\ FieldOr(Decoded(last.value), "domain", Undefined) = last.arg.request.client_id
       /\ Decoded(last.value).verifiableCredential = last.arg.selectedCredentials
       /\ IF last.arg.request.state = Undefined
            THEN last.value.state.kind = "absent"
            ELSE last.value.state = Param("text", last.arg.request.state)

\* C23, amended: as C23, the domain being the request's client_id when that is
\* not empty and absent from the presentation when it is empty.
C23_ResponseCarriesGivenVerifier ==
  Responded
    => /\ last.value.base = last.arg.request.redirect_uri
       /\ DecodeAndParse(last.value.vp_token).kind = "ok"
       /\ "proof" \in DOMAIN Decoded(last.value)
       /\ FieldOr(Decoded(last.value), "challenge", Undefined) = last.arg.request.nonce
       /\ FieldOr(Decoded(last.value), "domain", Str("")) = last.arg.request.client_id
       /\ Decoded(last.value).verifiableCredential = last.arg.selectedCredentials
       /\ IF last.arg.request.state = Undefined
            THEN last.value.state.kind = "absent"
            ELSE last.value.state = Param("text", last.arg.request.state)

\* a response for a request with nonce, client_id and state, presenting two
\* different credentials
C23_Witness ==
  /\ Responded
  /\ last.arg.request.nonce = Str("n1")
  /\ last.arg.request.client_id = Str("https://verifier.example")
  /\ last.arg.request.state = Str("s1")
  /\ Len(last.arg.selectedCredentials) = 2
  /\ last.arg.selectedCredentials[1] # last.arg.selectedCredentials[2]

\* C24: after issueBulkCredentials, successCount + failCount is the number of
\* data rows and the store has successCount credentials more than before, the
\* earlier ones unchanged.
C24_EveryRowReported ==
  [][last'.op = "issueBulkCredentials" /\ last' # last
       => /\ last'.value.successCount + last'.value.failCount
               = Len(last'.arg.rows)
          /\ Len(credentials') = Len(credentials) + last'.value.successCount
          /\ IsPrefix(credentials, credentials')]_vars

\* C25: the logging call never makes an issuance fail: issueSingleCredential
\* that stored a credential reports "Credential Issued", issueBulkCredentials
\* counts every stored credential as a success, and what was stored before
\* stays stored, whatever the logging channel does.
C25_LoggingNeverFailsIssuance ==
  [][/\ (last'.op = "issueSingleCredential" /\ Len(credentials') > Len(credentials))
          => last'.value = Str("Credential Issued")
     /\ (last'.op = "issueBulkCredentials" /\ last' # last)
          => Len(credentials') = Len(credentials) + last'.value.successCount
     /\ last'.op \in {"issueSingleCredential", "issueBulkCredentials"}
          => IsPrefix(credentials, credentials')]_vars

\* a credential was issued and stored although logging is enabled and the
\* request to the webhook fails
C25_Witness ==
  /\ last.op = "issueBulkCredentials"
  /\ last.arg.channel.loggingEnabled
  /\ last.arg.channel.webhookUrl # Undefined
  /\ last.arg.channel.fetch = "rejects"
  /\ last.value.successCount = 2
  /\ Len(credentials) = 2

C27_OneActiveIdentity ==
  (/\ last.op \in {"unlockWallet", "loadUserDID", "exportData", "loadUserData"}
   /\ ~Locked
   /\ dids # << >>
   /\ GetCurrentDID(dids, masterPassword).kind = "ok")
    => /\ last.kind = "ok"
       /\ last.value.did = Str(dids[1].did)

\* C28: after any sequence of setMasterPassword, clearMasterPassword, storeDID
\* and storeCredential, all stored ciphertexts are encrypted under one and
\* the same secret.
C28_SingleStoreKey ==
  \A r \in {dids[i].encryptedPrivateKey : i \in 1..Len(dids)}
             \cup {credentials[i].encryptedData : i \in 1..Len(credentials)} :
    \A q \in {dids[i].encryptedPrivateKey : i \in 1..Len(dids)}
               \cup {credentials[i].encryptedData : i \in 1..Len(credentials)} :
      r.key = q.key

\* C29: when Index.unlockWallet reports "Unlock Failed" the store is locked
\* afterwards, and after unlockWallet the page's isUnlocked is true exactly
\* when the store holds a secret.
C29_FailedUnlockLeavesLocked ==
  last.op = "unlockWallet"
    => /\ last.value.title = "Unlock Failed" => Locked
       /\ isUnlocked <=> ~Locked

\* C30: importDID rejects the import with 'A DID already exists' whenever the
\* store holds an identity, leaving dids unchanged, and stores the imported
\* identity only when the store holds none.
C30_ImportOnlyIntoEmpty ==
  [][(last'.op = "importDID" /\ ~Locked /\ last'.arg.privateKey # Undefined)
       => /\ dids # << >> => (dids' = dids /\ last'.kind = "error"
                                /\ last'.value = AlreadyExists)
          /\ dids' # dids => dids = << >>]_vars

====
